---- MODULE Spec2Model ----
(***************************************************************************)
(* Model of the delivery route optimizer                                   *)
(* (src/lambda/optimizedriverroutes/optimizedriverroutes.py) and of the    *)
(* parts of the manifest ingestion it depends on                           *)
(* (src/processdeliverycsv.py).                                            *)
(*                                                                         *)
(* Python lists are modelled as sequences; the VALUES they hold keep the   *)
(* 0-based numbering of the source, so element p (0-based) of a Python     *)
(* list s is s[p + 1] here.  Matrices are functions over 0..n-1.           *)
(***************************************************************************)
EXTENDS Integers, Sequences, FiniteSets, TLC

\* ------------------------------------------------------------------------
\* Bounds of the model
\* ------------------------------------------------------------------------
\* Largest number of non-depot stops of the matrices fed to the savings
\* algorithm when it is exercised on its own.
MaxSavingsStops == 3

\* Largest number of stops handed to nearest neighbor when it is exercised on
\* its own, and the largest longitude of the grid its coordinates come from.
MaxNearestStops == 3
MaxLon == 5

\* optimize_route_with_routes_api is exercised on 0..MaxDirectStops stops and
\* on MAX_STOPS_PER_REQUEST - 1 .. MAX_STOPS_PER_REQUEST + MaxExtraStops stops.
MaxDirectStops == 3
MaxExtraStops == 2

\* lambda_handler is exercised on two drivers with 0..MaxHandlerStops stops
\* each (and on one driver with MAX_STOPS_PER_REQUEST + MaxExtraStops stops);
\* the geocoder fails for up to MaxUngeocoded stops of a driver.
MaxHandlerStops == 3
MaxUngeocoded == 2
MaxAddresses == 6
MaxRerunStops == 2
MaxPostcodeLen == 3

\* ------------------------------------------------------------------------
\* Program constants
\* ------------------------------------------------------------------------
MAX_STOPS_PER_REQUEST == 25

\* Python's None where the code holds "no index".
None == -1

\* Durations (seconds) a cell of the provider's duration matrix may hold;
\* 0 is what calculate_distance_matrix leaves in a cell whose element failed.
DurationValues == {0, 2, 10}

\* ------------------------------------------------------------------------
\* List helpers (Python list operations)
\* ------------------------------------------------------------------------
\* list(range(a, b))
Range(a, b) == [p \in 1..(IF b > a THEN b - a ELSE 0) |-> a + p - 1]

\* x in lst
Contains(lst, x) == \E p \in 1..Len(lst) : lst[p] = x

\* lst.reverse()
Reverse(lst) == [p \in 1..Len(lst) |-> lst[Len(lst) - p + 1]]

\* Mutant of Pop: nothing is removed.
PopNothing(lst, k) == lst

\* lst.pop(k), k 0-based: the list without its element k
Pop(lst, k) == [p \in 1..(Len(lst) - 1) |-> IF p <= k THEN lst[p] ELSE lst[p + 1]]

\* set(lst)
Elems(lst) == {lst[p] : p \in 1..Len(lst)}

\* no value occurs twice in lst
NoDup(lst) == \A p, q \in 1..Len(lst) : lst[p] = lst[q] => p = q

\* lst is a permutation of 0..k-1
IsPermutation(lst, k) == Len(lst) = k /\ Elems(lst) = 0..(k - 1)

SetMax(S) == CHOOSE x \in S : \A y \in S : y <= x

\* len(matrix) of a square matrix given as a function over 0..n-1
MatrixLen(m) == Cardinality(DOMAIN m)

\* ------------------------------------------------------------------------
\* optimize_with_savings_algorithm
\* ------------------------------------------------------------------------
\* The pairs (i, j), 1 <= i < j < n, in the order the two nested loops
\* generate them.  PairsBefore(i, n) pairs are generated before the inner loop
\* of i starts, so the pair at position p (1-based) belongs to the i with
\* PairsBefore(i, n) < p <= PairsBefore(i + 1, n).
PairsBefore(i, n) == (i - 1) * (n - 1) - ((i - 1) * i) \div 2

PairAt(p, n) ==
    LET i == CHOOSE a \in 1..(n - 2) : PairsBefore(a, n) < p /\ p <= PairsBefore(a + 1, n)
    IN  <<i, i + (p - PairsBefore(i, n))>>

GeneratedPairs(n) == [p \in 1..PairsBefore(n - 1, n) |-> PairAt(p, n)]

\* The savings list before sorting: (i, j, d(0,i) + d(0,j) - d(i,j)).
SavingsEntry(start_idx, duration_matrix, i, j) ==
    <<i, j, duration_matrix[start_idx][i] + duration_matrix[start_idx][j]
            - duration_matrix[i][j]>>

ComputeSavings(start_idx, duration_matrix) ==
    LET n == MatrixLen(duration_matrix)
    IN  [p \in 1..PairsBefore(n - 1, n) |->
            SavingsEntry(start_idx, duration_matrix, PairAt(p, n)[1], PairAt(p, n)[2])]

\* savings.sort(key=lambda x: x[2], reverse=True) is a stable sort: the entries
\* of the largest saving come first, in the order they had, then those of the
\* next saving, and so on.  SortedGroups lists the entries whose saving is in
\* values that way.
RECURSIVE SortedGroups(_, _)
SortedGroups(savings, values) ==
    IF values = {} THEN <<>>
    ELSE LET v == SetMax(values)
         IN  SelectSeq(savings, LAMBDA entry : entry[3] = v)
                 \o SortedGroups(savings, values \ {v})

\* The sorted list.  (list ranges over a one-element set so that the savings
\* are computed once.)
SortSavings(savings) ==
    CHOOSE sorted \in
        {SortedGroups(list, {list[g][3] : g \in 1..Len(list)})
            : list \in {[g \in 1..Len(savings) |-> savings[g]]}} : TRUE

\* routes = [[i] for i in range(1, n)]
InitialRoutes(n) == [p \in 1..(n - 1) |-> <<p>>]

\* The lookup loop: the index (0-based) of the last route containing x, or
\* None when no route contains it.
FindRoute(routes, x) ==
    LET hits == {idx \in 1..Len(routes) : Contains(routes[idx], x)}
    IN  IF hits = {} THEN None ELSE SetMax(hits) - 1

\* Which route list is dropped after a merge: routes.pop(max(route_i, route_j)).
PoppedIndex(route_i, route_j) == IF route_i > route_j THEN route_i ELSE route_j

\* One iteration of the merge loop for the savings pair (i, j).  The result
\* holds the new route list, whether the iteration raised (indexing routes
\* with None is a TypeError), and what the iteration did.
MergeIteration(routes, i, j) ==
    LET route_i == FindRoute(routes, i)
        route_j == FindRoute(routes, j)
    IN  IF route_i = route_j
        THEN [routes |-> routes, raised |-> FALSE, merged |-> FALSE,
              route_i |-> route_i, route_j |-> route_j, chain |-> <<>>]
        ELSE IF route_i = None \/ route_j = None
        THEN [routes |-> routes, raised |-> TRUE, merged |-> FALSE,
              route_i |-> route_i, route_j |-> route_j, chain |-> <<>>]
        ELSE
        LET ri == routes[route_i + 1]
            rj == routes[route_j + 1]
            i_at_end == ri[1] = i \/ ri[Len(ri)] = i
            j_at_end == rj[1] = j \/ rj[Len(rj)] = j
            \* the chain built by the merge, and the list it is stored in
            intoJ == ri[1] = i
            chain == IF ri[1] = i
                     THEN IF rj[1] = j THEN Reverse(rj) \o ri ELSE rj \o ri
                     ELSE IF rj[1] = j THEN ri \o rj ELSE Reverse(ri) \o rj
            stored == [routes EXCEPT ![IF intoJ THEN route_j + 1 ELSE route_i + 1] = chain]
        IN  IF i_at_end /\ j_at_end
            THEN [routes |-> Pop(stored, PoppedIndex(route_i, route_j)),
                  raised |-> FALSE, merged |-> TRUE,
                  route_i |-> route_i, route_j |-> route_j, chain |-> chain]
            ELSE [routes |-> routes, raised |-> FALSE, merged |-> FALSE,
                  route_i |-> route_i, route_j |-> route_j, chain |-> <<>>]

\* final_route: the remaining routes concatenated in list order
RECURSIVE Flatten(_)
Flatten(routes) ==
    IF routes = <<>> THEN <<>> ELSE Head(routes) \o Flatten(Tail(routes))

\* final_route = [i - 1 for i in final_route]
AdjustIndices(final_route) == [p \in 1..Len(final_route) |-> final_route[p] - 1]

\* The early return of the trivial case (n <= 2): list(range(1, n)).
TrivialRoute(n) == Range(1, n)

\* The merge loop run over savings[lo..hi] from the state st = [routes,
\* raised]; the loop ends at the first iteration that raises.  (The range is
\* halved rather than walked, which keeps the evaluation shallow; the
\* iterations run in list order all the same.)
RECURSIVE MergeRange(_, _, _, _)
MergeRange(st, savings, lo, hi) ==
    IF st.raised \/ lo > hi THEN st
    ELSE IF lo = hi
    THEN LET it == MergeIteration(st.routes, savings[lo][1], savings[lo][2])
         IN  [routes |-> it.routes, raised |-> it.raised]
    ELSE LET mid == (lo + hi) \div 2
         IN  MergeRange(MergeRange(st, savings, lo, mid), savings, mid + 1, hi)

MergeLoop(routes, savings) ==
    MergeRange([routes |-> routes, raised |-> FALSE], savings, 1, Len(savings))

\* The whole function: [raised, route].  raised = TRUE stands for the
\* TypeError leaving the function; route is then meaningless (<<>>).
optimize_with_savings_algorithm(start_idx, distance_matrix, duration_matrix) ==
    LET n == MatrixLen(distance_matrix)
    IN  IF n <= 2 THEN [raised |-> FALSE, route |-> TrivialRoute(n)]
        ELSE LET loop == MergeLoop(InitialRoutes(n),
                                   SortSavings(ComputeSavings(start_idx, duration_matrix)))
             IN  IF loop.raised THEN [raised |-> TRUE, route |-> <<>>]
                 ELSE [raised |-> FALSE, route |-> AdjustIndices(Flatten(loop.routes))]

\* ------------------------------------------------------------------------
\* Nearest neighbor (optimize_route_with_routes_api lines 235-261 and
\* optimize_chunk_with_routes_api: the same loop twice in the source)
\* ------------------------------------------------------------------------
\* The code compares ((dx)**2 + (dy)**2) ** 0.5.  On the integer coordinates
\* of this model x ** 0.5 is strictly increasing over the values compared, so
\* the comparisons are those of the squared distances, which are kept exact.
SquaredDistance(p, q) == (p[1] - q[1]) * (p[1] - q[1]) + (p[2] - q[2]) * (p[2] - q[2])

\* min_distance = float('inf'); nearest_idx = -1
NoCandidate == [idx |-> None, inf |-> TRUE, dist |-> 0]

\* Mutant of IsNearer: `<=` instead of `<` (a tie goes to the last candidate).
IsNearerOrEqual(dist, best) == best.inf \/ dist <= best.dist

\* if dist < min_distance
IsNearer(dist, best) == best.inf \/ dist < best.dist

\* The inner for loop over remaining_points, in list order.
RECURSIVE ScanNearest(_, _, _, _)
ScanNearest(current_point, coords, remaining, best) ==
    IF remaining = <<>> THEN best.idx
    ELSE LET idx == Head(remaining)
             dist == SquaredDistance(current_point, coords[idx + 1])
         IN  ScanNearest(current_point, coords, Tail(remaining),
                         IF IsNearer(dist, best)
                         THEN [idx |-> idx, inf |-> FALSE, dist |-> dist]
                         ELSE best)

NearestIdx(current_point, coords, remaining) ==
    ScanNearest(current_point, coords, remaining, NoCandidate)

\* Mutant of Remove: the list is left as it is.
RemoveNothing(lst, x) == lst

\* Mutant of Remove: drops the first element whatever x is.
RemoveFirstElement(lst, x) == IF lst = <<>> THEN <<>> ELSE Tail(lst)

\* lst.remove(x): the list without the first occurrence of x
RECURSIVE Remove(_, _)
Remove(lst, x) ==
    IF lst = <<>> THEN <<>>
    ELSE IF Head(lst) = x THEN Tail(lst)
    ELSE <<Head(lst)>> \o Remove(Tail(lst), x)

\* One iteration of the while loop on the state (route, current_point,
\* remaining_points).
NearestIteration(st, coords) ==
    LET nearest_idx == NearestIdx(st.current_point, coords, st.remaining_points)
    IN  IF nearest_idx # None
        THEN [route |-> Append(st.route, nearest_idx),
              current_point |-> coords[nearest_idx + 1],
              remaining_points |-> Remove(st.remaining_points, nearest_idx)]
        ELSE st

NearestStart(start_coords, coords) ==
    [route |-> <<>>, current_point |-> start_coords,
     remaining_points |-> Range(0, Len(coords))]

RECURSIVE NearestLoop(_, _)
NearestLoop(st, coords) ==
    IF st.remaining_points = <<>> THEN st.route
    ELSE NearestLoop(NearestIteration(st, coords), coords)

\* optimize_chunk_with_routes_api(start_coords, chunk_coords, api_key)
optimize_chunk_with_routes_api(start_coords, chunk_coords) ==
    NearestLoop(NearestStart(start_coords, chunk_coords), chunk_coords)

\* The non-chunked branch of optimize_route_with_routes_api.
NearestNeighborRoute(start_coords, location_coords) ==
    NearestLoop(NearestStart(start_coords, location_coords), location_coords)

\* ------------------------------------------------------------------------
\* calculate_distance_matrix
\* ------------------------------------------------------------------------
\* What the Distance Matrix request can come to:
\*   "transport_error"  urlopen raises, or the body is not JSON
\*   "malformed"        the body is JSON the processing cannot go through (no
\*                      object, or more rows or elements than locations): an
\*                      AttributeError or IndexError inside the try block
\*   "status_not_ok"    the response's status is not "OK"
\*   "elements_failed"  status "OK", but no element has status "OK"
\*   "rows_missing"     status "OK", but only the first row is there
\*   "ok"               status "OK" and every element has status "OK"
ProviderResponses ==
    {"transport_error", "malformed", "status_not_ok", "elements_failed",
     "rows_missing", "ok"}

\* The value the provider reports for a pair of coordinates (the program does
\* not compute it; any function of the two coordinates will do here).
TravelValue(p, q) ==
    (IF p[1] >= q[1] THEN p[1] - q[1] ELSE q[1] - p[1])
  + (IF p[2] >= q[2] THEN p[2] - q[2] ELSE q[2] - p[2])

\* A matrix, or None.
NoMatrix == [is_none |-> TRUE, cells |-> <<>>]
Matrix(cells) == [is_none |-> FALSE, cells |-> cells]

\* np.zeros((matrix_size, matrix_size)) with the cells of the elements that
\* are there and whose status is "OK" filled in.
FilledMatrix(locations, response) ==
    [a \in 0..(Len(locations) - 1) |-> [b \in 0..(Len(locations) - 1) |->
        IF response = "ok" \/ (response = "rows_missing" /\ a = 0)
        THEN TravelValue(locations[a + 1], locations[b + 1]) ELSE 0]]

\* The body of the try block (lines 79-113): [raised, distance, duration].
RequestMatrices(locations, response) ==
    IF response \in {"transport_error", "malformed"}
    THEN [raised |-> TRUE, distance |-> NoMatrix, duration |-> NoMatrix]
    ELSE IF response = "status_not_ok"
    THEN [raised |-> FALSE, distance |-> NoMatrix, duration |-> NoMatrix]
    ELSE [raised |-> FALSE,
          distance |-> Matrix(FilledMatrix(locations, response)),
          duration |-> Matrix(FilledMatrix(locations, response))]

\* Mutant of calculate_distance_matrix: no except clause.
calculate_distance_matrix_uncaught(locations, response) ==
    RequestMatrices(locations, response)

\* Returns (distance_matrix, duration_matrix) as [raised, distance, duration];
\* `except Exception` turns whatever the try block raises into (None, None).
calculate_distance_matrix(locations, response) ==
    LET r == RequestMatrices(locations, response)
    IN  IF r.raised
        THEN [raised |-> FALSE, distance |-> NoMatrix, duration |-> NoMatrix]
        ELSE r

\* ------------------------------------------------------------------------
\* optimize_route_with_routes_api
\* ------------------------------------------------------------------------
\* lst[a:b] for 0 <= a
Slice(lst, a, b) ==
    LET hi == IF b < Len(lst) THEN b ELSE Len(lst)
    IN  [p \in 1..(IF hi > a THEN hi - a ELSE 0) |-> lst[a + p]]

\* total_locations > MAX_STOPS_PER_REQUEST + 1
TakesChunkedPath(location_coords) ==
    Len(location_coords) + 1 > MAX_STOPS_PER_REQUEST + 1

\* chunk_size = MAX_STOPS_PER_REQUEST - 1
ChunkSize == MAX_STOPS_PER_REQUEST - 1

\* Mutant of MakeChunks: only full chunks are made, the rest is dropped.
MakeChunksFullOnly(optimized_indices, chunk_size) ==
    [c \in 1..(Len(optimized_indices) \div chunk_size) |->
        Slice(optimized_indices, (c - 1) * chunk_size, c * chunk_size)]

\* chunks = [optimized_indices[i:i+chunk_size] for i in range(0, len(...), chunk_size)]
MakeChunks(optimized_indices, chunk_size) ==
    [c \in 1..((Len(optimized_indices) + chunk_size - 1) \div chunk_size) |->
        Slice(optimized_indices, (c - 1) * chunk_size, c * chunk_size)]

\* One iteration of `for chunk in chunks`: [raised, refined].  Indexing
\* location_coords with an index outside it raises IndexError.
RefineChunk(start_coords, location_coords, chunk) ==
    IF \E p \in 1..Len(chunk) : chunk[p] < 0 \/ chunk[p] >= Len(location_coords)
    THEN [raised |-> TRUE, refined |-> <<>>]
    ELSE LET chunk_coords == [p \in 1..Len(chunk) |-> location_coords[chunk[p] + 1]]
             refined_chunk == optimize_chunk_with_routes_api(start_coords, chunk_coords)
         IN  [raised |-> FALSE,
              refined |-> [p \in 1..Len(refined_chunk) |-> chunk[refined_chunk[p] + 1]]]

\* The loop over chunks[from..], extending refined_indices.
RECURSIVE RefineChunks(_, _, _, _, _)
RefineChunks(start_coords, location_coords, chunks, from, refined_indices) ==
    IF from > Len(chunks) THEN [raised |-> FALSE, refined |-> refined_indices]
    ELSE LET r == RefineChunk(start_coords, location_coords, chunks[from])
         IN  IF r.raised THEN [raised |-> TRUE, refined |-> <<>>]
             ELSE RefineChunks(start_coords, location_coords, chunks, from + 1,
                               refined_indices \o r.refined)

\* Mutant of ChunkedSeed: the fallback for a missing matrix returns no stops.
ChunkedSeedEmptyFallback(start_coords, location_coords, response) ==
    LET all_coords == <<start_coords>> \o location_coords
        matrices == calculate_distance_matrix(all_coords, response)
    IN  IF matrices.distance.is_none \/ matrices.duration.is_none
        THEN [path |-> "fallback", raised |-> FALSE, seed |-> <<>>]
        ELSE LET r == optimize_with_savings_algorithm(0, matrices.distance.cells,
                                                      matrices.duration.cells)
             IN  [path |-> "chunked", raised |-> r.raised, seed |-> r.route]

\* Lines 206-218 of the chunked path, up to the seed order:
\* [path, raised, seed].  path is "fallback" when a matrix is None.
ChunkedSeed(start_coords, location_coords, response) ==
    LET all_coords == <<start_coords>> \o location_coords
        matrices == calculate_distance_matrix(all_coords, response)
    IN  IF matrices.distance.is_none \/ matrices.duration.is_none
        THEN [path |-> "fallback", raised |-> FALSE,
              seed |-> Range(0, Len(location_coords))]
        ELSE LET r == optimize_with_savings_algorithm(0, matrices.distance.cells,
                                                      matrices.duration.cells)
             IN  [path |-> "chunked", raised |-> r.raised, seed |-> r.route]

\* The whole function: [path, raised, route].  response is what the provider
\* answers if the function asks it.
optimize_route_with_routes_api(start_coords, location_coords, response) ==
    IF TakesChunkedPath(location_coords)
    THEN LET s == ChunkedSeed(start_coords, location_coords, response)
         IN  IF s.raised THEN [path |-> s.path, raised |-> TRUE, route |-> <<>>]
             ELSE IF s.path = "fallback"
             THEN [path |-> "fallback", raised |-> FALSE, route |-> s.seed]
             ELSE LET r == RefineChunks(start_coords, location_coords,
                                        MakeChunks(s.seed, ChunkSize), 1, <<>>)
                  IN  [path |-> "chunked", raised |-> r.raised, route |-> r.refined]
    ELSE [path |-> "direct", raised |-> FALSE,
          route |-> NearestNeighborRoute(start_coords, location_coords)]

\* ------------------------------------------------------------------------
\* update_route_sequence and export_driver_routes_to_csv
\* ------------------------------------------------------------------------
\* A key an item does not carry (dict.get then gives its default).
Absent == None

\* One table item, with the attributes the optimizer reads.  The postcode of a
\* delivery is written as a number; START_LOCATION is the address 0.
Item(pk, driver, postcode, seq) ==
    [PK |-> pk, DriverID |-> driver, PostcodeRaw |-> postcode, RouteSequence |-> seq]

\* The loop of update_route_sequence from position i on.  failing is the set
\* of positions whose table.update_item raises; st is
\* [deliveries, success_count, writes], writes the <<PK, seq>> pairs stored.
RECURSIVE UpdateFrom(_, _, _, _)
UpdateFrom(st, optimized_sequence, i, failing) ==
    IF i >= Len(optimized_sequence) THEN st
    ELSE LET original_index == optimized_sequence[i + 1]
         IN  IF original_index < 0 \/ original_index >= Len(st.deliveries) \/ i \in failing
             THEN UpdateFrom(st, optimized_sequence, i + 1, failing)
             ELSE UpdateFrom(
                    [deliveries |-> [st.deliveries EXCEPT
                                        ![original_index + 1].RouteSequence = i + 1],
                     success_count |-> st.success_count + 1,
                     writes |-> Append(st.writes,
                                       <<st.deliveries[original_index + 1].PK, i + 1>>)],
                    optimized_sequence, i + 1, failing)

\* Mutant of update_route_sequence: the first failed write ends the loop.
update_route_sequence_stops_at_failure(deliveries, optimized_sequence, failing) ==
    UpdateFrom([deliveries |-> deliveries, success_count |-> 0, writes |-> <<>>],
               optimized_sequence, 0,
               {i \in 0..(Len(optimized_sequence) - 1) : \E f \in failing : f <= i})

\* Mutant of update_route_sequence: the loop starts at the second position.
update_route_sequence_from_second(deliveries, optimized_sequence, failing) ==
    UpdateFrom([deliveries |-> deliveries, success_count |-> 0, writes |-> <<>>],
               optimized_sequence, 1, failing)

update_route_sequence(deliveries, optimized_sequence, failing) ==
    UpdateFrom([deliveries |-> deliveries, success_count |-> 0, writes |-> <<>>],
               optimized_sequence, 0, failing)

\* The table after the writes of one update_route_sequence call.
RECURSIVE ApplyWrites(_, _)
ApplyWrites(items, writes) ==
    IF writes = <<>> THEN items
    ELSE ApplyWrites([p \in 1..Len(items) |->
                        IF items[p].PK = writes[1][1]
                        THEN [items[p] EXCEPT !.RouteSequence = writes[1][2]]
                        ELSE items[p]],
                     Tail(writes))

\* x.get("RouteSequence", 999)
SequenceKey(delivery) ==
    IF delivery.RouteSequence = Absent THEN 999 ELSE delivery.RouteSequence

\* sorted(deliveries, key=...): stable, ascending.
PlacedBefore(keys, g, h) == keys[g] < keys[h] \/ (keys[g] = keys[h] /\ g < h)

SortedDeliveries(deliveries) ==
    CHOOSE r \in
        {[p \in 1..Len(deliveries) |->
              deliveries[CHOOSE g \in 1..Len(deliveries) :
                  Cardinality({h \in 1..Len(deliveries) : PlacedBefore(keys, h, g)}) = p - 1]]
           : keys \in {[g \in 1..Len(deliveries) |-> SequenceKey(deliveries[g])]}} : TRUE

\* f"{hours:02d}:{minutes:02d}" as the pair it prints.
ArrivalTime(arrival_minutes) == <<arrival_minutes \div 60, arrival_minutes % 60>>

start_time == 9 * 60
service_time == 5
FirstDriveTime == 20
NextDriveTime == 8

\* The rows written from position idx of sorted_deliveries on.
RECURSIVE ExportRows(_, _, _)
ExportRows(sorted_deliveries, idx, cumulative_time) ==
    IF idx >= Len(sorted_deliveries) THEN <<>>
    ELSE LET delivery == sorted_deliveries[idx + 1]
             drive_time == IF idx = 0 THEN FirstDriveTime ELSE NextDriveTime
             arrival_minutes == start_time + cumulative_time + drive_time
         IN  IF delivery.RouteSequence = Absent
             THEN ExportRows(sorted_deliveries, idx + 1, cumulative_time)
             ELSE <<[RouteSequence |-> delivery.RouteSequence,
                     DeliveryID |-> delivery.PK,
                     Postcode |-> delivery.PostcodeRaw,
                     EstimatedArrivalTime |-> ArrivalTime(arrival_minutes),
                     EstimatedDuration |-> drive_time + service_time]>>
                  \o ExportRows(sorted_deliveries, idx + 1,
                                cumulative_time + drive_time + service_time)

\* The rows of the CSV export_driver_routes_to_csv builds (the upload is the
\* caller's step).
export_driver_routes_to_csv(deliveries) ==
    ExportRows(SortedDeliveries(deliveries), 0, 0)

\* ------------------------------------------------------------------------
\* lambda_handler
\* ------------------------------------------------------------------------
START_LOCATION == 0

\* delivery.get("PostcodeRaw", "").strip() of a delivery without a postcode
EmptyPostcode == None

\* The deliveries the grouping loop keeps.
HasPostcode(delivery) == delivery.PostcodeRaw # EmptyPostcode

WithPostcode(deliveries) == SelectSeq(deliveries, HasPostcode)

\* The keys of grouped_deliveries in insertion order (the order in which
\* `for driver, stops in grouped_deliveries.items()` visits them).
DriverOrder(deliveries) ==
    LET kept == WithPostcode(deliveries)
        firsts == {p \in 1..Len(kept) :
                     \A q \in 1..(p - 1) : kept[q].DriverID # kept[p].DriverID}
    IN  [k \in 1..Cardinality(firsts) |->
            kept[CHOOSE p \in firsts : Cardinality({q \in firsts : q < p}) = k - 1].DriverID]

\* grouped_deliveries
GroupDeliveries(deliveries) ==
    LET kept == WithPostcode(deliveries)
    IN  [driver \in {kept[p].DriverID : p \in 1..Len(kept)} |->
            SelectSeq(kept, LAMBDA d : d.DriverID = driver)]

\* unique_addresses
UniqueAddresses(deliveries) ==
    {START_LOCATION} \cup
        {WithPostcode(deliveries)[p].PostcodeRaw : p \in 1..Len(WithPostcode(deliveries))}

\* address_to_coords.get(address); <<>> stands for None
NoCoords == <<>>
GetCoords(address_to_coords, address) ==
    IF address \in DOMAIN address_to_coords THEN address_to_coords[address] ELSE NoCoords

\* Lines 488-503: [locations, original_indices, postcode_mapping].
PrepareLocations(stops, address_to_coords) ==
    LET valid == {p \in 1..Len(stops) :
                     GetCoords(address_to_coords, stops[p].PostcodeRaw) # NoCoords}
        nth(k) == CHOOSE p \in valid : Cardinality({q \in valid : q < p}) = k - 1
    IN  [locations |-> [k \in 1..Cardinality(valid) |->
                            address_to_coords[stops[nth(k)].PostcodeRaw]],
         original_indices |-> [k \in 1..Cardinality(valid) |-> nth(k) - 1],
         postcode_mapping |-> [k \in 1..Cardinality(valid) |-> stops[nth(k)].PostcodeRaw]]

avg_drive_time == 8
avg_service_time == 5
depot_to_first_time == 20

\* Mutant of estimated_duration: the trip returns to the depot.
estimated_duration_with_return(num_stops) ==
    depot_to_first_time + (num_stops - 1) * avg_drive_time
        + num_stops * avg_service_time + depot_to_first_time

\* Lines 533-544.
estimated_duration(num_stops) ==
    depot_to_first_time + (num_stops - 1) * avg_drive_time + num_stops * avg_service_time

\* results before the first driver (lines 477-482).
NoResults ==
    [optimized_drivers |-> 0, total_deliveries_sequenced |-> 0,
     driver_routes |-> <<>>, route_durations |-> <<>>]

\* Lines 547-554.
UpdateResults(results, driver, sequence, optimized_sequence, postcode_mapping, updated) ==
    [optimized_drivers |-> results.optimized_drivers + 1,
     total_deliveries_sequenced |-> results.total_deliveries_sequenced + updated,
     driver_routes |->
        (driver :> [stops |-> Len(sequence),
                    route |-> <<START_LOCATION>> \o
                        [p \in 1..Len(optimized_sequence) |->
                            postcode_mapping[optimized_sequence[p] + 1]]])
            @@ results.driver_routes,
     route_durations |->
        (driver :> estimated_duration(Len(sequence)))
            @@ results.route_durations]

\* What one pass of the driver loop left behind, for a driver not yet visited.
NoRun ==
    [outcome |-> "none", path |-> "undecided", response |-> "not_called",
     original_indices |-> <<>>, optimized_sequence |-> <<>>,
     original_optimized_sequence |-> <<>>, deliveries_updated |-> 0,
     failing |-> {}, csv |-> <<>>]

\* ------------------------------------------------------------------------
\* The route-planner engine (src/optimizedriverroutes.py)
\* ------------------------------------------------------------------------
\* What the Route Planner request can come to:
\*   "exception"       requests.post or response.json() raises
\*   "status_not_200"  the status code is not 200
\*   "no_features"     status 200, no feature in the answer
\*   "no_actions"      a feature without "actions"
\*   "no_jobs"         actions, none of them a job
\*   "route"           actions with the jobs in the planner's order
PlannerResponses ==
    {"exception", "status_not_200", "no_features", "no_actions", "no_jobs", "route"}

\* A list, or None.
NoSequence == [is_none |-> TRUE, route |-> <<>>]
Sequence(route) == [is_none |-> FALSE, route |-> route]

\* `if optimized_sequence:`
IsTruthy(optimized_sequence) ==
    ~optimized_sequence.is_none /\ optimized_sequence.route # <<>>

\* The greedy fallback of lines 199-239: the location nearest to the start,
\* then always the nearest unvisited one, the first of equally near ones
\* (the square root it takes of the squared distance keeps the order).
PlannerFallback(locations, start_coords) == NearestNeighborRoute(start_coords, locations)

\* optimize_route_with_planner(locations, start_coords); planned is the job
\* order a "route" answer carries.
optimize_route_with_planner(locations, start_coords, response, planned) ==
    IF response \in {"exception", "status_not_200", "no_actions", "no_jobs"}
    THEN NoSequence
    ELSE IF response = "no_features"
    THEN Sequence(PlannerFallback(locations, start_coords))
    ELSE Sequence(planned)

\* The rows of the planner engine's CSV from position idx on (lines 297-315).
RECURSIVE PlannerExportRows(_, _)
PlannerExportRows(sorted_deliveries, idx) ==
    IF idx >= Len(sorted_deliveries) THEN <<>>
    ELSE LET delivery == sorted_deliveries[idx + 1]
         IN  IF delivery.RouteSequence = Absent
             THEN PlannerExportRows(sorted_deliveries, idx + 1)
             ELSE <<[RouteSequence |-> delivery.RouteSequence,
                     DeliveryID |-> delivery.PK,
                     Postcode |-> delivery.PostcodeRaw,
                     EstimatedArrivalTime |-> ArrivalTime(start_time + idx * 15)]>>
                  \o PlannerExportRows(sorted_deliveries, idx + 1)

\* ------------------------------------------------------------------------
\* geocode_addresses_parallel and get_coordinates
\* ------------------------------------------------------------------------
\* ThreadPoolExecutor(max_workers=5)
max_workers == 5

\* What one geocoding request can come to: a status OK answer with results,
\* the other statuses, and an exception inside the try block (urlopen,
\* json.loads, a missing key).
LookupAnswers ==
    {"ok", "zero_results", "over_query_limit", "other_status", "exception"}

\* The coordinates the geocoder has for an address.
GeocoderCoords(address) == <<address, 0>>

\* get_coordinates(address, api_key): (lng, lat) or None.
get_coordinates(address, answer) ==
    IF answer = "ok" THEN GeocoderCoords(address) ELSE NoCoords

\* geocode_single(address)
geocode_single(address, answer) ==
    [address |-> address, coords |-> get_coordinates(address, answer)]

\* Mutant of IdleWorker: the pool starts a thread for every task.
IdleWorkerUnbounded(running) == TRUE

\* A task leaves the queue when one of the pool's max_workers threads is free.
IdleWorker(running) == Cardinality(running) < max_workers

\* if coords: address_to_coords[address] = coords
StoreResult(address_to_coords, result) ==
    IF result.coords # NoCoords
    THEN [a \in DOMAIN address_to_coords \cup {result.address} |->
             IF a = result.address THEN result.coords ELSE address_to_coords[a]]
    ELSE address_to_coords

\* ------------------------------------------------------------------------
\* assign_driver (src/processdeliverycsv.py and
\* src/lambda/processdeliverycsv/lambda_function.py: the same text)
\* ------------------------------------------------------------------------
\* A postcode is a sequence of characters.  DRIVER_ASSIGNMENTS in the order
\* of the dict literal, which is the order .items() yields.
DRIVER_ASSIGNMENTS ==
    <<[prefix |-> <<"W">>, driver |-> "Driver 1"],
      [prefix |-> <<"W", "C">>, driver |-> "Driver 2"],
      [prefix |-> <<"E", "C">>, driver |-> "Driver 3"],
      [prefix |-> <<"N", "W">>, driver |-> "Driver 4"],
      [prefix |-> <<"N">>, driver |-> "Driver 5"],
      [prefix |-> <<"E">>, driver |-> "Driver 6"],
      [prefix |-> <<"S", "E">>, driver |-> "Driver 7"],
      [prefix |-> <<"S", "W">>, driver |-> "Driver 8"]>>

\* c.upper() on the characters in use.
Upper(c) ==
    IF c = "w" THEN "W" ELSE IF c = "c" THEN "C" ELSE IF c = "n" THEN "N" ELSE c

\* postcode.replace(" ", "").upper()
Normalize(postcode) ==
    LET kept == SelectSeq(postcode, LAMBDA c : c # " ")
    IN  [p \in 1..Len(kept) |-> Upper(kept[p])]

\* postcode.startswith(prefix)
StartsWith(postcode, prefix) ==
    /\ Len(prefix) <= Len(postcode)
    /\ \A p \in 1..Len(prefix) : postcode[p] = prefix[p]

\* The loop over DRIVER_ASSIGNMENTS.items() from entry k on: the driver of
\* the first prefix that matches, "Unassigned" after the last.
RECURSIVE FirstMatch(_, _)
FirstMatch(postcode, k) ==
    IF k > Len(DRIVER_ASSIGNMENTS) THEN "Unassigned"
    ELSE IF StartsWith(postcode, DRIVER_ASSIGNMENTS[k].prefix)
    THEN DRIVER_ASSIGNMENTS[k].driver
    ELSE FirstMatch(postcode, k + 1)

\* assign_driver(postcode)
assign_driver(postcode) == FirstMatch(Normalize(postcode), 1)

\* ------------------------------------------------------------------------
\* State
\* ------------------------------------------------------------------------
VARIABLES
    \* optimize_with_savings_algorithm, run step by step
    sv_matrix,      \* duration_matrix (also passed as distance_matrix)
    sv_savings,     \* the sorted savings list
    sv_next,        \* number of savings entries the merge loop has consumed
    sv_routes,      \* routes
    sv_last,        \* what the last iteration of the merge loop did
    sv_final,       \* the returned final_route
    sv_pc           \* "idle" | "call" | "loop" | "returned" | "raised"

sv_vars == <<sv_matrix, sv_savings, sv_next, sv_routes, sv_last, sv_final, sv_pc>>

VARIABLES
    \* nearest neighbor, run step by step
    nn_start,       \* start_coords
    nn_coords,      \* location_coords
    nn_state,       \* [route, current_point, remaining_points]
    nn_prev,        \* nn_state before the last iteration
    nn_iterations,  \* iterations of the while loop so far
    nn_pc           \* "idle" | "loop" | "returned"

nn_vars == <<nn_start, nn_coords, nn_state, nn_prev, nn_iterations, nn_pc>>

VARIABLES
    \* optimize_route_with_routes_api, run chunk by chunk
    rt_start,       \* start_coords
    rt_coords,      \* location_coords
    rt_response,    \* what the provider answered ("not_called" if not asked)
    rt_path,        \* "direct" | "fallback" | "chunked" once decided
    rt_seed,        \* optimized_indices
    rt_chunks,      \* chunks
    rt_k,           \* chunks refined so far
    rt_refined,     \* refined_indices
    rt_result,      \* the returned list
    rt_pc           \* "idle" | "call" | "chunks" | "returned" | "raised"

rt_vars == <<rt_start, rt_coords, rt_response, rt_path, rt_seed, rt_chunks, rt_k,
             rt_refined, rt_result, rt_pc>>

VARIABLES
    \* lambda_handler, run driver by driver
    h_table,             \* the items of the DynamoDB table
    h_scanned,           \* the items as table.scan() of this run returned them
    h_grouped,           \* grouped_deliveries (the handler's local copies)
    h_order,             \* the drivers in the order the loop visits them
    h_address_to_coords, \* address_to_coords
    h_next,              \* drivers the loop has visited
    h_runs,              \* per driver, what its pass of the loop did
    h_results,           \* results
    h_status,            \* statusCode of the response (0: none yet)
    h_pc                 \* "idle" | "scan" | "geocode" | "drivers" | "returned" | "crashed"

h_vars == <<h_table, h_scanned, h_grouped, h_order, h_address_to_coords, h_next, h_runs,
            h_results, h_status, h_pc>>

VARIABLES
    \* calculate_distance_matrix, called once
    dm_locations,   \* locations
    dm_response,    \* what the provider answered
    dm_result,      \* what the call came to: [raised, distance, duration]
    dm_pc           \* "idle" | "call" | "returned"

dm_vars == <<dm_locations, dm_response, dm_result, dm_pc>>

VARIABLES
    \* one pass of the driver loop of the route-planner engine
    pl_start,       \* start_coords
    pl_stops,       \* the driver's stops (all geocoded)
    pl_locations,   \* their coordinates
    pl_response,    \* what the planner answered
    pl_sequence,    \* optimized_sequence
    pl_updated,     \* deliveries_updated
    pl_csv,         \* the rows uploaded
    pl_outcome,     \* "none" | "optimized" | "failed" | "upload_raised"
    pl_pc           \* "idle" | "call" | "record" | "done" | "crashed"

pl_vars == <<pl_start, pl_stops, pl_locations, pl_response, pl_sequence, pl_updated, pl_csv,
             pl_outcome, pl_pc>>

VARIABLES
    \* one call of geocode_addresses_parallel
    g_addresses,    \* addresses, in the order executor.map submits them
    g_task,         \* per task: "queued" | "running" | "done"
    g_results,      \* per finished task: what geocode_single returned
    g_collected,    \* number of results the calling thread has consumed
    g_map,          \* address_to_coords
    g_peak,         \* the largest number of lookups that ran at the same time
    g_pc            \* "idle" | "collect" | "returned"

g_vars == <<g_addresses, g_task, g_results, g_collected, g_map, g_peak, g_pc>>

VARIABLES
    \* one call of assign_driver
    ad_postcode,    \* the argument
    ad_driver,      \* the value returned
    ad_pc           \* "idle" | "call" | "returned"

ad_vars == <<ad_postcode, ad_driver, ad_pc>>

vars == <<sv_vars, nn_vars, rt_vars, h_vars, dm_vars, pl_vars, g_vars, ad_vars>>

\* ------------------------------------------------------------------------
\* Inputs
\* ------------------------------------------------------------------------
\* The unordered pairs {a, b} of 0..n-1 index the cells of a symmetric matrix.
UpperPairs(n) == {pr \in (0..(n - 1)) \X (0..(n - 1)) : pr[1] < pr[2]}

\* The symmetric matrix with zero diagonal whose cell (a, b), a < b, is cells[<<a, b>>].
SymmetricMatrix(n, cells) ==
    [a \in 0..(n - 1) |-> [b \in 0..(n - 1) |->
        IF a = b THEN 0 ELSE IF a < b THEN cells[<<a, b>>] ELSE cells[<<b, a>>]]]

\* The symmetric matrices of size n over DurationValues.
SavingsMatrices(n) ==
    {SymmetricMatrix(n, cells) : cells \in [UpperPairs(n) -> DurationValues]}

\* Coordinates are (longitude, latitude) pairs: the points of one parallel and
\* two points off it (so that both terms of the distance matter and ties occur).
OffAxis == {<<1, 1>>, <<2, 1>>}
Coordinates == ((0..MaxLon) \X {0}) \cup OffAxis
Depots == {<<0, 0>>, <<2, 1>>}

StopLists(maxStops) == UNION {[1..k -> Coordinates] : k \in 0..maxStops}

\* Stop counts on both sides of the stop limit.
RouteStopCounts ==
    (0..MaxDirectStops)
        \cup ((MAX_STOPS_PER_REQUEST - 1)..(MAX_STOPS_PER_REQUEST + MaxExtraStops))

\* Ways of placing n stops: along a parallel away from the depot, along it
\* towards the depot, and scattered (with coinciding stops and ties).
Layouts == {"ascending", "descending", "scattered"}

LayoutCoords(layout, n) ==
    [p \in 1..n |->
        IF layout = "ascending" THEN <<p, 0>>
        ELSE IF layout = "descending" THEN <<n + 1 - p, 0>>
        ELSE <<(3 * p) % 7, p % 2>>]

NoIteration == [routes |-> <<>>, raised |-> FALSE, merged |-> FALSE,
                route_i |-> None, route_j |-> None, chain |-> <<>>,
                i |-> 0, j |-> 0, before |-> <<>>]

\* ------------------------------------------------------------------------
\* Idle values of the parts a specification does not exercise
\* ------------------------------------------------------------------------
NoNearestState == [route |-> <<>>, current_point |-> <<0, 0>>, remaining_points |-> <<>>]

SavingsIdle ==
    /\ sv_matrix = SymmetricMatrix(1, <<>>)
    /\ sv_savings = <<>>
    /\ sv_next = 0
    /\ sv_routes = <<>>
    /\ sv_last = NoIteration
    /\ sv_final = <<>>
    /\ sv_pc = "idle"

NearestIdle ==
    /\ nn_start = <<0, 0>>
    /\ nn_coords = <<>>
    /\ nn_state = NoNearestState
    /\ nn_prev = NoNearestState
    /\ nn_iterations = 0
    /\ nn_pc = "idle"

RouteIdle ==
    /\ rt_start = <<0, 0>>
    /\ rt_coords = <<>>
    /\ rt_response = "not_called"
    /\ rt_path = "undecided"
    /\ rt_seed = <<>>
    /\ rt_chunks = <<>>
    /\ rt_k = 0
    /\ rt_refined = <<>>
    /\ rt_result = <<>>
    /\ rt_pc = "idle"

HandlerIdle ==
    /\ h_table = <<>>
    /\ h_scanned = <<>>
    /\ h_grouped = <<>>
    /\ h_order = <<>>
    /\ h_address_to_coords = <<>>
    /\ h_next = 0
    /\ h_runs = <<>>
    /\ h_results = NoResults
    /\ h_status = 0
    /\ h_pc = "idle"

MatrixIdle ==
    /\ dm_locations = <<>>
    /\ dm_response = "not_called"
    /\ dm_result = [raised |-> FALSE, distance |-> NoMatrix, duration |-> NoMatrix]
    /\ dm_pc = "idle"

PlannerIdle ==
    /\ pl_start = <<0, 0>>
    /\ pl_stops = <<>>
    /\ pl_locations = <<>>
    /\ pl_response = "not_called"
    /\ pl_sequence = NoSequence
    /\ pl_updated = 0
    /\ pl_csv = <<>>
    /\ pl_outcome = "none"
    /\ pl_pc = "idle"

GeocodeIdle ==
    /\ g_addresses = <<>>
    /\ g_task = <<>>
    /\ g_results = <<>>
    /\ g_collected = 0
    /\ g_map = <<>>
    /\ g_peak = 0
    /\ g_pc = "idle"

AssignIdle ==
    /\ ad_postcode = <<>>
    /\ ad_driver = "none"
    /\ ad_pc = "idle"

\* ------------------------------------------------------------------------
\* optimize_with_savings_algorithm, step by step
\* ------------------------------------------------------------------------
SavingsInit ==
    /\ \E n \in 1..(MaxSavingsStops + 1) : sv_matrix \in SavingsMatrices(n)
    /\ sv_savings = <<>>
    /\ sv_next = 0
    /\ sv_routes = <<>>
    /\ sv_last = NoIteration
    /\ sv_final = <<>>
    /\ sv_pc = "call"
    /\ NearestIdle
    /\ RouteIdle
    /\ HandlerIdle
    /\ MatrixIdle
    /\ PlannerIdle
    /\ GeocodeIdle
    /\ AssignIdle

\* Lines 123-143: the trivial case returns at once; otherwise the savings are
\* computed and sorted and every stop gets a route of its own.
SavingsEnter ==
    /\ sv_pc = "call"
    /\ LET n == MatrixLen(sv_matrix)
       IN  IF n <= 2
           THEN /\ sv_final' = TrivialRoute(n)
                /\ sv_pc' = "returned"
                /\ UNCHANGED <<sv_savings, sv_routes>>
           ELSE /\ sv_savings' = SortSavings(ComputeSavings(0, sv_matrix))
                /\ sv_routes' = InitialRoutes(n)
                /\ sv_pc' = "loop"
                /\ UNCHANGED sv_final
    /\ UNCHANGED <<sv_matrix, sv_next, sv_last, nn_vars, rt_vars, h_vars, dm_vars, pl_vars, g_vars, ad_vars>>

\* Lines 146-186: one iteration of the merge loop.
SavingsIterate ==
    /\ sv_pc = "loop"
    /\ sv_next < Len(sv_savings)
    /\ LET e == sv_savings[sv_next + 1]
           it == MergeIteration(sv_routes, e[1], e[2])
       IN  /\ sv_last' = [routes |-> it.routes, raised |-> it.raised, merged |-> it.merged,
                          route_i |-> it.route_i, route_j |-> it.route_j, chain |-> it.chain,
                          i |-> e[1], j |-> e[2], before |-> sv_routes]
           /\ sv_routes' = it.routes
           /\ sv_pc' = IF it.raised THEN "raised" ELSE "loop"
    /\ sv_next' = sv_next + 1
    /\ UNCHANGED <<sv_matrix, sv_savings, sv_final, nn_vars, rt_vars, h_vars, dm_vars, pl_vars, g_vars, ad_vars>>

\* Lines 188-196: the savings are exhausted; combine, adjust, return.
SavingsReturn ==
    /\ sv_pc = "loop"
    /\ sv_next = Len(sv_savings)
    /\ sv_final' = AdjustIndices(Flatten(sv_routes))
    /\ sv_pc' = "returned"
    /\ UNCHANGED <<sv_matrix, sv_savings, sv_next, sv_routes, sv_last, nn_vars, rt_vars, h_vars, dm_vars, pl_vars, g_vars, ad_vars>>

SavingsNext == SavingsEnter \/ SavingsIterate \/ SavingsReturn

SavingsSpec == SavingsInit /\ [][SavingsNext]_vars

\* ------------------------------------------------------------------------
\* Nearest neighbor, step by step
\* ------------------------------------------------------------------------
NearestInit ==
    /\ nn_start \in Depots
    /\ nn_coords \in StopLists(MaxNearestStops)
    /\ nn_state = NearestStart(nn_start, nn_coords)
    /\ nn_prev = NearestStart(nn_start, nn_coords)
    /\ nn_iterations = 0
    /\ nn_pc = "loop"
    /\ SavingsIdle
    /\ RouteIdle
    /\ HandlerIdle
    /\ MatrixIdle
    /\ PlannerIdle
    /\ GeocodeIdle
    /\ AssignIdle

\* Lines 241-258: one iteration of `while remaining_points`.
NearestIterate ==
    /\ nn_pc = "loop"
    /\ nn_state.remaining_points # <<>>
    /\ nn_state' = NearestIteration(nn_state, nn_coords)
    /\ nn_prev' = nn_state
    /\ nn_iterations' = nn_iterations + 1
    /\ UNCHANGED <<nn_start, nn_coords, nn_pc, sv_vars, rt_vars, h_vars, dm_vars, pl_vars, g_vars, ad_vars>>

\* Lines 260-261: the loop condition is false; return route.
NearestReturn ==
    /\ nn_pc = "loop"
    /\ nn_state.remaining_points = <<>>
    /\ nn_pc' = "returned"
    /\ UNCHANGED <<nn_start, nn_coords, nn_state, nn_prev, nn_iterations, sv_vars, rt_vars, h_vars, dm_vars, pl_vars, g_vars, ad_vars>>

NearestNext == NearestIterate \/ NearestReturn

NearestSpec == NearestInit /\ [][NearestNext]_vars

\* The function runs on one thread that keeps executing its next statement.
NearestFairSpec == NearestSpec /\ WF_vars(NearestNext)

\* ------------------------------------------------------------------------
\* optimize_route_with_routes_api, chunk by chunk
\* ------------------------------------------------------------------------
RouteInit ==
    /\ rt_start \in Depots
    /\ \E n \in RouteStopCounts, layout \in Layouts : rt_coords = LayoutCoords(layout, n)
    /\ rt_response = "not_called"
    /\ rt_path = "undecided"
    /\ rt_seed = <<>>
    /\ rt_chunks = <<>>
    /\ rt_k = 0
    /\ rt_refined = <<>>
    /\ rt_result = <<>>
    /\ rt_pc = "call"
    /\ SavingsIdle
    /\ NearestIdle
    /\ HandlerIdle
    /\ MatrixIdle
    /\ PlannerIdle
    /\ GeocodeIdle
    /\ AssignIdle

\* Lines 202-222 and 232-261: up to the first chunk, or to the return of the
\* paths that have no chunks.
RouteCall ==
    /\ rt_pc = "call"
    /\ IF TakesChunkedPath(rt_coords)
       THEN \E response \in ProviderResponses :
              \E s \in {ChunkedSeed(rt_start, rt_coords, response)} :
                  /\ rt_response' = response
                  /\ rt_path' = s.path
                  /\ rt_seed' = s.seed
                  /\ IF s.raised
                     THEN /\ rt_pc' = "raised"
                          /\ UNCHANGED <<rt_chunks, rt_result>>
                     ELSE IF s.path = "fallback"
                     THEN /\ rt_pc' = "returned"
                          /\ rt_result' = s.seed
                          /\ UNCHANGED rt_chunks
                     ELSE /\ rt_pc' = "chunks"
                          /\ rt_chunks' = MakeChunks(s.seed, ChunkSize)
                          /\ UNCHANGED rt_result
       ELSE /\ rt_path' = "direct"
            /\ rt_result' = NearestNeighborRoute(rt_start, rt_coords)
            /\ rt_pc' = "returned"
            /\ UNCHANGED <<rt_response, rt_seed, rt_chunks>>
    /\ UNCHANGED <<rt_start, rt_coords, rt_k, rt_refined, sv_vars, nn_vars, h_vars, dm_vars, pl_vars, g_vars, ad_vars>>

\* Lines 225-228: one iteration of `for chunk in chunks`.
RouteRefine ==
    /\ rt_pc = "chunks"
    /\ rt_k < Len(rt_chunks)
    /\ \E r \in {RefineChunk(rt_start, rt_coords, rt_chunks[rt_k + 1])} :
           /\ rt_refined' = rt_refined \o r.refined
           /\ rt_pc' = IF r.raised THEN "raised" ELSE "chunks"
    /\ rt_k' = rt_k + 1
    /\ UNCHANGED <<rt_start, rt_coords, rt_response, rt_path, rt_seed, rt_chunks,
                   rt_result, sv_vars, nn_vars, h_vars, dm_vars, pl_vars, g_vars, ad_vars>>

\* Line 230: return refined_indices.
RouteReturn ==
    /\ rt_pc = "chunks"
    /\ rt_k = Len(rt_chunks)
    /\ rt_result' = rt_refined
    /\ rt_pc' = "returned"
    /\ UNCHANGED <<rt_start, rt_coords, rt_response, rt_path, rt_seed, rt_chunks, rt_k,
                   rt_refined, sv_vars, nn_vars, h_vars, dm_vars, pl_vars, g_vars, ad_vars>>

RouteNext == RouteCall \/ RouteRefine \/ RouteReturn

RouteSpec == RouteInit /\ [][RouteNext]_vars

\* ------------------------------------------------------------------------
\* lambda_handler, driver by driver
\* ------------------------------------------------------------------------
\* The table after ingestion: c1 deliveries of "Driver 1", then c2 of
\* "Driver 2", each with its own postcode, all carrying RouteSequence seq.
Manifest(c1, c2, seq) ==
    [p \in 1..(c1 + c2) |->
        Item(p, IF p <= c1 THEN "Driver 1" ELSE "Driver 2", p, seq)]

\* Stop counts of the two drivers: every pair of small counts, and one driver
\* above the stop limit next to one with three stops.
ManifestShapes ==
    ((0..MaxHandlerStops) \X (0..MaxHandlerStops))
        \cup {<<MAX_STOPS_PER_REQUEST + MaxExtraStops, 3>>,
              <<3, MAX_STOPS_PER_REQUEST + MaxExtraStops>>}

\* RouteSequence as the ingestion stores it: 0 (src/processdeliverycsv.py) or
\* not at all (src/lambda/processdeliverycsv/lambda_function.py).
IngestedSequences == {0, Absent}

\* Where the geocoder puts an address: the depot at the origin, the postcodes
\* of a table of n items in one of two layouts.
DepotCoords == <<0, 0>>
GeocoderLayouts == {"descending", "scattered"}
PostcodeCoords(layout, n, postcode) == LayoutCoords(layout, n)[postcode]

\* The postcodes the geocoder does not resolve: the first missing[d] of driver d.
Unresolved(grouped, missing) ==
    UNION {{grouped[d][p].PostcodeRaw :
                p \in 1..(IF missing[d] < Len(grouped[d]) THEN missing[d] ELSE Len(grouped[d]))}
            : d \in DOMAIN grouped}

\* The provider is asked only on the chunked path.
ResponsesFor(location_coords) ==
    IF TakesChunkedPath(location_coords) THEN ProviderResponses ELSE {"not_called"}

\* The positions of a sequence of length k whose table.update_item raises:
\* none, the first, the last, or all.
FailingWrites(k) == {{}, {0}, {k - 1}, 0..(k - 1)}

HandlerInit ==
    /\ \E shape \in ManifestShapes, seq \in IngestedSequences :
           h_table = Manifest(shape[1], shape[2], seq)
    /\ h_scanned = <<>>
    /\ h_grouped = <<>>
    /\ h_order = <<>>
    /\ h_address_to_coords = <<>>
    /\ h_next = 0
    /\ h_runs = <<>>
    /\ h_results = NoResults
    /\ h_status = 0
    /\ h_pc = "scan"
    /\ SavingsIdle
    /\ NearestIdle
    /\ RouteIdle
    /\ MatrixIdle
    /\ PlannerIdle
    /\ GeocodeIdle
    /\ AssignIdle

\* Lines 425-459: the scan and the grouping.
HandlerScan ==
    /\ h_pc = "scan"
    /\ \E scan_raises \in BOOLEAN :
           IF scan_raises
           THEN /\ h_status' = 500
                /\ h_pc' = "returned"
                /\ UNCHANGED <<h_scanned, h_grouped, h_order, h_runs>>
           ELSE IF h_table = <<>>
           THEN /\ h_status' = 400
                /\ h_pc' = "returned"
                /\ UNCHANGED <<h_scanned, h_grouped, h_order, h_runs>>
           ELSE /\ h_scanned' = h_table
                /\ h_grouped' = GroupDeliveries(h_table)
                /\ h_order' = DriverOrder(h_table)
                /\ h_runs' = [d \in DOMAIN GroupDeliveries(h_table) |-> NoRun]
                /\ h_pc' = "geocode"
                /\ UNCHANGED h_status
    /\ UNCHANGED <<h_table, h_address_to_coords, h_next, h_results,
                   sv_vars, nn_vars, rt_vars, dm_vars, pl_vars, g_vars, ad_vars>>

\* Lines 461-474: geocoding of the unique addresses and of START_LOCATION.
HandlerGeocode ==
    /\ h_pc = "geocode"
    /\ \E start_found \in BOOLEAN, missing \in [DOMAIN h_grouped -> 0..MaxUngeocoded],
          layout \in GeocoderLayouts :
         \E resolved \in {(UniqueAddresses(h_table) \ Unresolved(h_grouped, missing))
                              \ (IF start_found THEN {} ELSE {START_LOCATION})} :
           /\ h_address_to_coords' =
                  [a \in resolved |->
                      IF a = START_LOCATION THEN DepotCoords
                      ELSE PostcodeCoords(layout, Len(h_table), a)]
           /\ IF resolved = {} \/ START_LOCATION \notin resolved
              THEN /\ h_status' = 400
                   /\ h_pc' = "returned"
              ELSE /\ h_pc' = "drivers"
                   /\ UNCHANGED h_status
    /\ UNCHANGED <<h_table, h_scanned, h_grouped, h_order, h_next, h_runs, h_results,
                   sv_vars, nn_vars, rt_vars, dm_vars, pl_vars, g_vars, ad_vars>>

\* Mutant of TooFewStops: one stop is taken for enough.
TooFewStopsBelowOne(locations) == Len(locations) < 1

\* if len(locations) < 2: continue
TooFewStops(locations) == Len(locations) < 2

\* original_optimized_sequence = [original_indices[i] for i in optimized_sequence]
MapToOriginal(original_indices, optimized_sequence) ==
    [p \in 1..Len(optimized_sequence) |-> original_indices[optimized_sequence[p] + 1]]

\* Lines 485-559: one pass of `for driver, stops in grouped_deliveries.items()`.
\* An exception out of optimize_route_with_routes_api, out of the index
\* mapping or out of s3.put_object is caught nowhere and ends the invocation.
HandlerDriver ==
    /\ h_pc = "drivers"
    /\ h_next < Len(h_order)
    /\ h_next' = h_next + 1
    /\ \E driver \in {h_order[h_next + 1]} :
       \E prep \in {PrepareLocations(h_grouped[driver], h_address_to_coords)} :
         IF TooFewStops(prep.locations)
         THEN /\ h_runs' = [h_runs EXCEPT ![driver] =
                    [NoRun EXCEPT !.outcome = "skipped",
                                  !.original_indices = prep.original_indices]]
              /\ UNCHANGED <<h_table, h_grouped, h_results, h_status, h_pc>>
         ELSE
           \E response \in ResponsesFor(prep.locations) :
           \E opt \in {optimize_route_with_routes_api(
                           h_address_to_coords[START_LOCATION], prep.locations, response)} :
           \E run \in {[NoRun EXCEPT !.path = opt.path,
                                     !.response = response,
                                     !.original_indices = prep.original_indices,
                                     !.optimized_sequence = opt.route]} :
             IF opt.raised
                  \/ \E p \in 1..Len(opt.route) :
                         opt.route[p] < 0 \/ opt.route[p] >= Len(prep.original_indices)
             THEN /\ h_runs' = [h_runs EXCEPT ![driver] = [run EXCEPT !.outcome = "raised"]]
                  /\ h_pc' = "crashed"
                  /\ UNCHANGED <<h_table, h_grouped, h_results, h_status>>
             ELSE IF opt.route = <<>>
             THEN /\ h_runs' = [h_runs EXCEPT ![driver] = [run EXCEPT !.outcome = "failed"]]
                  /\ UNCHANGED <<h_table, h_grouped, h_results, h_status, h_pc>>
             ELSE
               \E failing \in FailingWrites(Len(opt.route)), upload_raises \in BOOLEAN :
               \E original_optimized_sequence \in
                      {MapToOriginal(prep.original_indices, opt.route)} :
               \E upd \in {update_route_sequence(h_grouped[driver],
                                                 original_optimized_sequence, failing)} :
                 /\ h_table' = ApplyWrites(h_table, upd.writes)
                 /\ h_grouped' = [h_grouped EXCEPT ![driver] = upd.deliveries]
                 /\ IF upload_raises
                    THEN /\ h_runs' = [h_runs EXCEPT ![driver] =
                               [run EXCEPT !.outcome = "upload_raised",
                                           !.original_optimized_sequence =
                                               original_optimized_sequence,
                                           !.deliveries_updated = upd.success_count,
                                           !.failing = failing]]
                         /\ h_pc' = "crashed"
                         /\ UNCHANGED <<h_results, h_status>>
                    ELSE /\ h_runs' = [h_runs EXCEPT ![driver] =
                               [run EXCEPT !.outcome = "optimized",
                                           !.original_optimized_sequence =
                                               original_optimized_sequence,
                                           !.deliveries_updated = upd.success_count,
                                           !.failing = failing,
                                           !.csv = export_driver_routes_to_csv(
                                                       upd.deliveries)]]
                         /\ h_results' = UpdateResults(h_results, driver,
                                             original_optimized_sequence, opt.route,
                                             prep.postcode_mapping, upd.success_count)
                         /\ UNCHANGED <<h_status, h_pc>>
    /\ UNCHANGED <<h_scanned, h_order, h_address_to_coords, sv_vars, nn_vars, rt_vars, dm_vars, pl_vars, g_vars, ad_vars>>

\* Lines 561-571: the response after the last driver.
HandlerReturn ==
    /\ h_pc = "drivers"
    /\ h_next = Len(h_order)
    /\ h_status' = 200
    /\ h_pc' = "returned"
    /\ UNCHANGED <<h_table, h_scanned, h_grouped, h_order, h_address_to_coords, h_next,
                   h_runs, h_results, sv_vars, nn_vars, rt_vars, dm_vars, pl_vars, g_vars, ad_vars>>

\* The next invocation of lambda_handler (the engine is triggered again, by
\* hand or on a schedule) starts with fresh locals on the table the earlier
\* invocation left. Followed here for tables of at most MaxRerunStops items.
HandlerInvokeAgain ==
    /\ h_pc \in {"returned", "crashed"}
    /\ Len(h_table) <= MaxRerunStops
    /\ h_scanned' = <<>>
    /\ h_grouped' = <<>>
    /\ h_order' = <<>>
    /\ h_address_to_coords' = <<>>
    /\ h_next' = 0
    /\ h_runs' = <<>>
    /\ h_results' = NoResults
    /\ h_status' = 0
    /\ h_pc' = "scan"
    /\ UNCHANGED <<h_table, sv_vars, nn_vars, rt_vars, dm_vars, pl_vars, g_vars, ad_vars>>

HandlerNext ==
    HandlerScan \/ HandlerGeocode \/ HandlerDriver \/ HandlerReturn \/ HandlerInvokeAgain

HandlerSpec == HandlerInit /\ [][HandlerNext]_vars

\* ------------------------------------------------------------------------
\* calculate_distance_matrix, called once
\* ------------------------------------------------------------------------
MatrixInit ==
    /\ dm_locations \in StopLists(MaxNearestStops)
    /\ dm_response = "not_called"
    /\ dm_result = [raised |-> FALSE, distance |-> NoMatrix, duration |-> NoMatrix]
    /\ dm_pc = "call"
    /\ SavingsIdle
    /\ NearestIdle
    /\ RouteIdle
    /\ HandlerIdle
    /\ PlannerIdle
    /\ GeocodeIdle
    /\ AssignIdle

\* Lines 55-116 with one answer of the provider.
MatrixCall ==
    /\ dm_pc = "call"
    /\ \E response \in ProviderResponses :
           /\ dm_response' = response
           /\ dm_result' = calculate_distance_matrix(dm_locations, response)
    /\ dm_pc' = "returned"
    /\ UNCHANGED <<dm_locations, sv_vars, nn_vars, rt_vars, h_vars, pl_vars, g_vars, ad_vars>>

MatrixNext == MatrixCall

MatrixSpec == MatrixInit /\ [][MatrixNext]_vars

\* ------------------------------------------------------------------------
\* The route-planner engine: one driver with at least two geocoded stops
\* ------------------------------------------------------------------------
\* The job orders a "route" answer may carry.
PlannedOrders(n) == {Range(0, n), Reverse(Range(0, n))}

PlannerInit ==
    /\ pl_start \in Depots
    /\ \E layout \in Layouts, n \in 2..MaxDirectStops :
           /\ pl_locations = LayoutCoords(layout, n)
           /\ pl_stops = [p \in 1..n |-> Item(p, "Driver 1", p, 0)]
    /\ pl_response = "not_called"
    /\ pl_sequence = NoSequence
    /\ pl_updated = 0
    /\ pl_csv = <<>>
    /\ pl_outcome = "none"
    /\ pl_pc = "call"
    /\ SavingsIdle
    /\ NearestIdle
    /\ RouteIdle
    /\ HandlerIdle
    /\ MatrixIdle
    /\ GeocodeIdle
    /\ AssignIdle

\* Line 425: optimized_sequence = optimize_route_with_planner(locations, start_coords)
PlannerCall ==
    /\ pl_pc = "call"
    /\ \E response \in PlannerResponses, planned \in PlannedOrders(Len(pl_locations)) :
           /\ pl_response' = response
           /\ pl_sequence' = optimize_route_with_planner(
                                 pl_locations, pl_start, response, planned)
    /\ pl_pc' = "record"
    /\ UNCHANGED <<pl_start, pl_stops, pl_locations, pl_updated, pl_csv, pl_outcome,
                   sv_vars, nn_vars, rt_vars, h_vars, dm_vars, g_vars, ad_vars>>

\* Lines 427-454: `if optimized_sequence:` with its else branch. Every stop is
\* geocoded here, so original_indices is the identity.
PlannerRecord ==
    /\ pl_pc = "record"
    /\ IF IsTruthy(pl_sequence)
       THEN \E failing \in FailingWrites(Len(pl_sequence.route)), upload_raises \in BOOLEAN :
            \E upd \in {update_route_sequence(pl_stops, pl_sequence.route, failing)} :
              /\ pl_stops' = upd.deliveries
              /\ pl_updated' = upd.success_count
              /\ IF upload_raises
                 THEN /\ pl_outcome' = "upload_raised"
                      /\ pl_pc' = "crashed"
                      /\ UNCHANGED pl_csv
                 ELSE /\ pl_outcome' = "optimized"
                      /\ pl_pc' = "done"
                      /\ pl_csv' = PlannerExportRows(SortedDeliveries(upd.deliveries), 0)
       ELSE /\ pl_outcome' = "failed"
            /\ pl_pc' = "done"
            /\ UNCHANGED <<pl_stops, pl_updated, pl_csv>>
    /\ UNCHANGED <<pl_start, pl_locations, pl_response, pl_sequence,
                   sv_vars, nn_vars, rt_vars, h_vars, dm_vars, g_vars, ad_vars>>

PlannerNext == PlannerCall \/ PlannerRecord

PlannerSpec == PlannerInit /\ [][PlannerNext]_vars

\* ------------------------------------------------------------------------
\* geocode_addresses_parallel: the pool's threads and the calling thread
\* ------------------------------------------------------------------------
Running == {t \in DOMAIN g_task : g_task[t] = "running"}
Queued == {t \in DOMAIN g_task : g_task[t] = "queued"}

\* executor.map has submitted one task per address.
GeocodeInit ==
    /\ \E n \in 0..MaxAddresses : g_addresses = [t \in 1..n |-> t]
    /\ g_task = [t \in DOMAIN g_addresses |-> "queued"]
    /\ g_results = [t \in DOMAIN g_addresses |-> geocode_single(g_addresses[t], "pending")]
    /\ g_collected = 0
    /\ g_map = <<>>
    /\ g_peak = 0
    /\ g_pc = "collect"
    /\ SavingsIdle
    /\ NearestIdle
    /\ RouteIdle
    /\ HandlerIdle
    /\ MatrixIdle
    /\ PlannerIdle
    /\ AssignIdle

\* A free thread of the pool takes the oldest queued task.
GeocodeStart ==
    /\ g_pc = "collect"
    /\ Queued # {}
    /\ IdleWorker(Running)
    /\ \E t \in {CHOOSE q \in Queued : \A r \in Queued : q <= r} :
           /\ g_task' = [g_task EXCEPT ![t] = "running"]
           /\ g_peak' = IF Cardinality(Running) + 1 > g_peak
                        THEN Cardinality(Running) + 1 ELSE g_peak
    /\ UNCHANGED <<g_addresses, g_results, g_collected, g_map, g_pc,
                   sv_vars, nn_vars, rt_vars, h_vars, dm_vars, pl_vars, ad_vars>>

\* A running lookup returns: geocode_single with the geocoder's answer.
GeocodeFinish ==
    /\ g_pc = "collect"
    /\ \E t \in Running, answer \in LookupAnswers :
           /\ g_task' = [g_task EXCEPT ![t] = "done"]
           /\ g_results' = [g_results EXCEPT ![t] = geocode_single(g_addresses[t], answer)]
    /\ UNCHANGED <<g_addresses, g_collected, g_map, g_peak, g_pc,
                   sv_vars, nn_vars, rt_vars, h_vars, dm_vars, pl_vars, ad_vars>>

\* Lines 411-415: the calling thread takes the next result in submission order.
GeocodeCollect ==
    /\ g_pc = "collect"
    /\ g_collected < Len(g_addresses)
    /\ g_task[g_collected + 1] = "done"
    /\ g_map' = StoreResult(g_map, g_results[g_collected + 1])
    /\ g_collected' = g_collected + 1
    /\ UNCHANGED <<g_addresses, g_task, g_results, g_peak, g_pc,
                   sv_vars, nn_vars, rt_vars, h_vars, dm_vars, pl_vars, ad_vars>>

\* Line 417: return address_to_coords
GeocodeReturn ==
    /\ g_pc = "collect"
    /\ g_collected = Len(g_addresses)
    /\ g_pc' = "returned"
    /\ UNCHANGED <<g_addresses, g_task, g_results, g_collected, g_map, g_peak,
                   sv_vars, nn_vars, rt_vars, h_vars, dm_vars, pl_vars, ad_vars>>

GeocodeNext == GeocodeStart \/ GeocodeFinish \/ GeocodeCollect \/ GeocodeReturn

GeocodeSpec == GeocodeInit /\ [][GeocodeNext]_vars

\* ------------------------------------------------------------------------
\* assign_driver, called once
\* ------------------------------------------------------------------------
\* The characters postcodes are made of here: the letters of the prefixes,
\* lower-case letters, a digit and the space.
PostcodeChars == {"W", "C", "E", "N", "S", "1", " ", "w", "c", "n"}

Postcodes == UNION {[1..k -> PostcodeChars] : k \in 0..MaxPostcodeLen}

AssignInit ==
    /\ ad_postcode \in Postcodes
    /\ ad_driver = "none"
    /\ ad_pc = "call"
    /\ SavingsIdle
    /\ NearestIdle
    /\ RouteIdle
    /\ HandlerIdle
    /\ MatrixIdle
    /\ PlannerIdle
    /\ GeocodeIdle

AssignCall ==
    /\ ad_pc = "call"
    /\ ad_driver' = assign_driver(ad_postcode)
    /\ ad_pc' = "returned"
    /\ UNCHANGED <<ad_postcode, sv_vars, nn_vars, rt_vars, h_vars, dm_vars, pl_vars, g_vars>>

AssignNext == AssignCall

AssignSpec == AssignInit /\ [][AssignNext]_vars

\* ------------------------------------------------------------------------
\* Properties of optimize_with_savings_algorithm (SavingsSpec)
\* ------------------------------------------------------------------------
\* Number of non-depot stops of the matrix under test.
SavingsStops == MatrixLen(sv_matrix) - 1

\* C1: for every square duration matrix with n non-depot stops,
\* optimize_with_savings_algorithm returns a permutation of 0..n-1 (every
\* stop-local index exactly once).
C1_SavingsReturnsPermutation ==
    sv_pc = "returned" => IsPermutation(sv_final, SavingsStops)

\* C4: on a matrix with 0 or 1 non-depot stops the function returns the
\* identity permutation of the stop-local indices: [] and [0].
C4_SavingsTrivialIdentity ==
    (sv_pc = "returned" /\ SavingsStops <= 1) => sv_final = Range(0, SavingsStops)

\* The saving of the pair (i, j) and "the pair (a, b) has strictly the largest
\* saving of all pairs".
SavingOf(m, i, j) == m[0][i] + m[0][j] - m[i][j]

StrictlyLargestSaving(m, a, b) ==
    /\ a < b
    /\ \A i, j \in 1..(MatrixLen(m) - 1) :
          (i < j /\ <<i, j>> # <<a, b>>) => SavingOf(m, a, b) > SavingOf(m, i, j)

\* a and b are neighbours in lst
Adjacent(lst, a, b) ==
    \E p \in 1..(Len(lst) - 1) :
        \/ lst[p] = a /\ lst[p + 1] = b
        \/ lst[p] = b /\ lst[p + 1] = a

\* C9: when one pair (A, B) has strictly the largest saving, the first
\* iteration of the merge loop merges A and B into one chain, and A and B are
\* adjacent in the returned sequence.
C9_BestPairMergedAndAdjacent ==
    \A a, b \in 1..SavingsStops :
        StrictlyLargestSaving(sv_matrix, a, b) =>
            /\ (sv_pc = "loop" /\ sv_next = 1) =>
                   /\ sv_last.i = a /\ sv_last.j = b /\ sv_last.merged
                   /\ \E r \in 1..Len(sv_routes) :
                          Contains(sv_routes[r], a) /\ Contains(sv_routes[r], b)
            /\ sv_pc = "returned" => Adjacent(sv_final, a - 1, b - 1)

\* The active chains that contain stop x.
ChainsWith(routes, x) == {r \in 1..Len(routes) : Contains(routes[r], x)}

\* C21: in every state of the merge loop the active chains are pairwise
\* disjoint and together hold every non-depot stop exactly once (each merge
\* removes the absorbed chain, not the one that grew).
C21_ActiveChainsPartitionStops ==
    sv_pc \in {"loop", "raised"} =>
        /\ \A x \in 1..SavingsStops : Cardinality(ChainsWith(sv_routes, x)) = 1
        /\ \A r \in 1..Len(sv_routes) : NoDup(sv_routes[r])

\* C22: whenever the loop has merged the chains of a pair (i, j), whichever
\* ends i and j were at, i and j are adjacent in the chain that results.
C22_MergedPairIsAdjacent ==
    (sv_pc = "loop" /\ sv_last.merged) =>
        \E r \in 1..Len(sv_routes) : Adjacent(sv_routes[r], sv_last.i, sv_last.j)

\* C26: no error for a matrix with at least 2 non-depot stops: when the two
\* lookups of an iteration differ, both stops were found in an active chain.
C26_SavingsNeverRaises ==
    SavingsStops >= 2 =>
        /\ sv_pc # "raised"
        /\ sv_last.route_i # sv_last.route_j
               => sv_last.route_i # None /\ sv_last.route_j # None

\* C27: with at least 2 non-depot stops (matrix size n >= 3) the returned
\* sequence holds no value twice and only values in 0..n-2.
C27_ResultHasNoDuplicateOrForeignIndex ==
    (sv_pc = "returned" /\ MatrixLen(sv_matrix) >= 3) =>
        /\ NoDup(sv_final)
        /\ Elems(sv_final) \subseteq 0..(MatrixLen(sv_matrix) - 2)

\* A matrix with three non-depot stops went through the whole merge loop,
\* merges included, and the function returned a sequence.
C27_Witness ==
    /\ sv_pc = "returned"
    /\ MatrixLen(sv_matrix) >= 4
    /\ sv_next = Len(sv_savings)
    /\ Len(sv_routes) < SavingsStops
    /\ sv_final # <<>>

\* ------------------------------------------------------------------------
\* Properties of nearest neighbor (NearestSpec)
\* ------------------------------------------------------------------------
\* C2: for every depot and every list of k stop coordinates the
\* nearest-neighbor routine returns a permutation of 0..k-1.
C2_NearestReturnsPermutation ==
    nn_pc = "returned" => IsPermutation(nn_state.route, Len(nn_coords))

\* C2 witness: a call with three stops has returned an order that is not the
\* input order.
C2_Witness ==
    /\ nn_pc = "returned"
    /\ Len(nn_coords) = 3
    /\ nn_state.route # <<0, 1, 2>>

\* Position (1-based) of the first occurrence of x in lst.
IndexOf(lst, x) == CHOOSE p \in 1..Len(lst) : lst[p] = x /\ \A q \in 1..(p - 1) : lst[q] # x

\* C8: at every step the appended stop is an unvisited stop of minimum
\* Euclidean distance to the current position (the depot at first, the stop
\* appended before afterwards); among equidistant candidates it is the first
\* of the unvisited list; depot (0,0) with stops (1,0), (5,0), (2,0) gives
\* [0, 2, 1].
C8_NearestStepPicksNearest ==
    /\ nn_iterations > 0 =>
         LET chosen == nn_state.route[Len(nn_state.route)]
             unvisited == nn_prev.remaining_points
             from == IF nn_prev.route = <<>> THEN nn_start
                     ELSE nn_coords[nn_prev.route[Len(nn_prev.route)] + 1]
             d(idx) == SquaredDistance(from, nn_coords[idx + 1])
         IN  /\ Len(nn_state.route) = Len(nn_prev.route) + 1
             /\ Contains(unvisited, chosen)
             /\ \A p \in 1..Len(unvisited) : d(chosen) <= d(unvisited[p])
             /\ \A p \in 1..(IndexOf(unvisited, chosen) - 1) : d(chosen) < d(unvisited[p])
    /\ (/\ nn_pc = "returned"
        /\ nn_start = <<0, 0>>
        /\ nn_coords = <<<<1, 0>>, <<5, 0>>, <<2, 0>>>>) => nn_state.route = <<0, 2, 1>>

\* C8 witness: the run of the example has returned, and its second step chose
\* between stops 1 and 2 from stop 0.
C8_Witness ==
    /\ nn_pc = "returned"
    /\ nn_start = <<0, 0>>
    /\ nn_coords = <<<<1, 0>>, <<5, 0>>, <<2, 0>>>>
    /\ nn_iterations = 3

\* ------------------------------------------------------------------------
\* Properties of optimize_route_with_routes_api (RouteSpec)
\* ------------------------------------------------------------------------
\* ceil(a / b) for b > 0
CeilDiv(a, b) == (a + b - 1) \div b

\* C5: on the chunked path with n stops and limit L the seed order is cut into
\* exactly ceil(n / (L-1)) chunks, the concatenated output has length n, and
\* every global stop index appears in it exactly once.
C5_ChunkPartitionCoversAllStops ==
    (rt_pc = "returned" /\ rt_path = "chunked") =>
        /\ Len(rt_chunks) = CeilDiv(Len(rt_coords), MAX_STOPS_PER_REQUEST - 1)
        /\ Len(rt_result) = Len(rt_coords)
        /\ IsPermutation(rt_result, Len(rt_coords))

\* The provider answers for which calculate_distance_matrix returns (None, None).
AbsentResponses == {"transport_error", "malformed", "status_not_ok"}

\* C10: when calculate_distance_matrix returns (None, None),
\* optimize_route_with_routes_api raises nothing and returns, for at least 2
\* stops, a non-empty permutation of all the stop indices.
C10_AbsentMatricesStillSequenced ==
    rt_response \in AbsentResponses =>
        /\ rt_pc = "returned"
        /\ Len(rt_coords) >= 2 =>
              /\ rt_result # <<>>
              /\ IsPermutation(rt_result, Len(rt_coords))

\* C10 witness: a call above the stop limit whose provider request failed has
\* returned through the fallback.
C10_Witness ==
    /\ rt_pc = "returned"
    /\ rt_response = "transport_error"
    /\ rt_path = "fallback"
    /\ Len(rt_coords) = MAX_STOPS_PER_REQUEST + 1
    /\ Len(rt_result) = MAX_STOPS_PER_REQUEST + 1

\* ------------------------------------------------------------------------
\* Properties of lambda_handler (HandlerSpec)
\* ------------------------------------------------------------------------
\* The positions (0-based) of the driver's stops that were geocoded.
GeocodedPositions(driver) ==
    {p - 1 : p \in {q \in 1..Len(h_grouped[driver]) :
                       h_grouped[driver][q].PostcodeRaw \in DOMAIN h_address_to_coords}}

\* The drivers whose route the handler has optimized and exported.
OptimizedDrivers == {d \in DOMAIN h_runs : h_runs[d].outcome = "optimized"}

\* C3: for each driver the handler optimizes, on the direct and on the chunked
\* path alike, original_optimized_sequence holds the original position of
\* every geocoded stop of the driver exactly once and of no other stop, so its
\* length is the number of geocoded stops.
C3_SequenceCoversGeocodedStops ==
    \A driver \in OptimizedDrivers :
        LET sequence == h_runs[driver].original_optimized_sequence
        IN  /\ NoDup(sequence)
            /\ Elems(sequence) = GeocodedPositions(driver)
            /\ Len(sequence) = Cardinality(GeocodedPositions(driver))

\* 09:00 + 20 + p*8 + p*5 minutes
ClaimedArrival(p) == ArrivalTime(9 * 60 + 20 + p * 8 + p * 5)

\* C6: in the CSV of every exported driver, whether or not all of the driver's
\* stops were sequenced in this run, the stop at position p (0-based) of the
\* driver's OptimizedSequence has the arrival time 09:00 + 20 + p*8 + p*5
\* minutes (09:20, 09:33, 09:46 for three stops).
C6_ArrivalTimesByPosition ==
    \A driver \in OptimizedDrivers :
        LET sequence == h_runs[driver].original_optimized_sequence
            csv == h_runs[driver].csv
        IN  \A p \in 1..Len(sequence) :
                \E r \in 1..Len(csv) :
                    /\ csv[r].DeliveryID = h_grouped[driver][sequence[p] + 1].PK
                    /\ csv[r].EstimatedArrivalTime = ClaimedArrival(p - 1)

\* C7: for a driver with k stops in its sequence the reported estimated
\* duration is 20 + (k-1)*8 + k*5 minutes, without a return leg; it is a
\* function of k alone, whatever the provider answered.
C7_DurationDependsOnlyOnStopCount ==
    \A driver \in DOMAIN h_results.route_durations :
        LET k == Len(h_runs[driver].original_optimized_sequence)
        IN  /\ h_results.driver_routes[driver].stops = k
            /\ h_results.route_durations[driver] = 20 + (k - 1) * 8 + k * 5

\* C7 witness: one driver with three stops is reported at 51 minutes, and a
\* driver whose seed came from the provider's matrices is reported by the same
\* formula.
C7_Witness ==
    /\ h_pc = "returned"
    /\ h_status = 200
    /\ \E d \in DOMAIN h_results.route_durations :
           /\ h_results.driver_routes[d].stops = 3
           /\ h_results.route_durations[d] = 51
    /\ \E d \in DOMAIN h_results.route_durations :
           /\ h_runs[d].response = "ok"
           /\ h_results.route_durations[d] =
                  20 + (h_results.driver_routes[d].stops - 1) * 8
                     + h_results.driver_routes[d].stops * 5

\* The drivers whose stops update_route_sequence has gone through.
UpdatedDrivers ==
    {d \in DOMAIN h_runs : h_runs[d].outcome \in {"optimized", "upload_raised"}}

\* The item of the table with the given PK.
TableItem(pk) == h_table[CHOOSE q \in 1..Len(h_table) : h_table[q].PK = pk]

\* The driver's stop at position p (1-based) of its OptimizedSequence.
StopAt(driver, p) == h_grouped[driver][h_runs[driver].original_optimized_sequence[p] + 1]

\* C11: update_route_sequence gives the stop at position i (0-based) of the
\* OptimizedSequence the number i+1, in the table and in the handler's copy;
\* when every write succeeds, the numbers of the driver's k sequenced stops
\* are exactly 1..k, each used once.
C11_SequenceNumbersAreOneBased ==
    \A driver \in UpdatedDrivers :
        LET sequence == h_runs[driver].original_optimized_sequence
            written == {p \in 1..Len(sequence) : (p - 1) \notin h_runs[driver].failing}
        IN  /\ \A p \in written :
                  /\ StopAt(driver, p).RouteSequence = p
                  /\ TableItem(StopAt(driver, p).PK).RouteSequence = p
            /\ h_runs[driver].failing = {} =>
                  /\ {TableItem(StopAt(driver, p).PK).RouteSequence : p \in 1..Len(sequence)}
                         = 1..Len(sequence)
                  /\ Cardinality({StopAt(driver, p).PK : p \in 1..Len(sequence)})
                         = Len(sequence)

\* C11 witness: a driver with three stops, every write succeeded, and the
\* stops hold 1, 2, 3 in the order of the sequence.
C11_Witness ==
    \E driver \in UpdatedDrivers :
        /\ Len(h_runs[driver].original_optimized_sequence) = 3
        /\ h_runs[driver].failing = {}
        /\ h_runs[driver].deliveries_updated = 3
        /\ \A p \in 1..3 : TableItem(StopAt(driver, p).PK).RouteSequence = p

\* ------------------------------------------------------------------------
\* Properties of calculate_distance_matrix (MatrixSpec)
\* ------------------------------------------------------------------------
\* Whether m is a square matrix of size n.
IsSquare(m, n) ==
    /\ ~m.is_none
    /\ DOMAIN m.cells = 0..(n - 1)
    /\ \A a \in 0..(n - 1) : DOMAIN m.cells[a] = 0..(n - 1)

\* C12: calculate_distance_matrix never raises; on a transport error, a
\* non-OK status or a response it cannot process it returns (None, None);
\* otherwise both matrices are square of size len(locations); never one
\* matrix without the other.
C12_MatricesBothOrNeither ==
    dm_pc = "returned" =>
        /\ ~dm_result.raised
        /\ dm_result.distance.is_none = dm_result.duration.is_none
        /\ dm_response \in AbsentResponses =>
              dm_result.distance.is_none /\ dm_result.duration.is_none
        /\ dm_response \notin AbsentResponses =>
              /\ IsSquare(dm_result.distance, Len(dm_locations))
              /\ IsSquare(dm_result.duration, Len(dm_locations))

\* C12 witness: a response the processing raised on came back as (None, None).
C12_Witness ==
    /\ dm_pc = "returned"
    /\ dm_response = "malformed"
    /\ Len(dm_locations) = 3
    /\ ~dm_result.raised
    /\ dm_result.distance.is_none
    /\ dm_result.duration.is_none

\* The drivers the loop has visited and that had fewer than 2 geocoded stops.
ShortDrivers ==
    {d \in DOMAIN h_runs :
        h_runs[d].outcome # "none" /\ Cardinality(GeocodedPositions(d)) < 2}

\* The scanned item with the given PK.
ScannedItem(pk) == h_scanned[CHOOSE q \in 1..Len(h_scanned) : h_scanned[q].PK = pk]

\* What the pass over driver d comes to on the scanned table without the
\* deliveries of driver absent, with the same geocoding, provider answer and
\* failing writes: [sequence, csv].
PassWithout(absent, d) ==
    LET stops == GroupDeliveries(SelectSeq(h_scanned, LAMBDA x : x.DriverID # absent))[d]
        prep == PrepareLocations(stops, h_address_to_coords)
        opt == optimize_route_with_routes_api(h_address_to_coords[START_LOCATION],
                                              prep.locations, h_runs[d].response)
        sequence == MapToOriginal(prep.original_indices, opt.route)
    IN  [sequence |-> sequence,
         csv |-> export_driver_routes_to_csv(
                     update_route_sequence(stops, sequence, h_runs[d].failing).deliveries)]

\* C13: a driver with fewer than 2 geocoded stops is skipped: none of its
\* stops gets a sequence number, it has no entry in driver_routes and is not
\* counted in optimized_drivers, and every other driver is processed as if
\* the skipped driver's deliveries were not in the table.
C13_ShortDriverSkipped ==
    /\ h_results.optimized_drivers = Cardinality(OptimizedDrivers)
    /\ \A short \in ShortDrivers :
        /\ h_runs[short].outcome = "skipped"
        /\ short \notin DOMAIN h_results.driver_routes
        /\ short \notin OptimizedDrivers
        /\ \A p \in 1..Len(h_grouped[short]) :
              /\ h_grouped[short][p].RouteSequence
                     = ScannedItem(h_grouped[short][p].PK).RouteSequence
              /\ TableItem(h_grouped[short][p].PK).RouteSequence
                     = ScannedItem(h_grouped[short][p].PK).RouteSequence
        /\ \A d \in OptimizedDrivers :
              \E pass \in {PassWithout(short, d)} :
                  /\ h_runs[d].original_optimized_sequence = pass.sequence
                  /\ h_runs[d].csv = pass.csv
                  /\ h_results.driver_routes[d].stops = Len(pass.sequence)

\* C13 witness: the first driver had one geocoded stop and was skipped, the
\* second was optimized, and the handler returned 200.
C13_Witness ==
    /\ h_pc = "returned"
    /\ h_status = 200
    /\ Len(h_order) = 2
    /\ h_runs[h_order[1]].outcome = "skipped"
    /\ Cardinality(GeocodedPositions(h_order[1])) = 1
    /\ h_runs[h_order[2]].outcome = "optimized"
    /\ h_results.optimized_drivers = 1

\* The geocoded addresses that are stops.
GeocodedStops == DOMAIN h_address_to_coords \ {START_LOCATION}

\* C14: the handler ends with a status other than 200 whenever the depot is
\* not geocoded, and whenever no stop of any driver is geocoded.
C14_FatalConditionsAbort ==
    (/\ h_pc = "returned"
     /\ \/ START_LOCATION \notin DOMAIN h_address_to_coords
        \/ GeocodedStops = {})
        => h_status # 200

\* The drivers whose own pass ran into an error.
FailedDrivers ==
    {d \in DOMAIN h_runs : h_runs[d].outcome \in {"raised", "upload_raised"}}

\* C15: an error in the pass of one driver (optimization, persisting, or the
\* export and upload) does not abort the others: once the invocation is over,
\* every other driver with at least 2 geocoded stops is sequenced and
\* reported in the result.
C15_DriverErrorsAreIsolated ==
    (/\ h_pc \in {"returned", "crashed"}
     /\ START_LOCATION \in DOMAIN h_address_to_coords)
        => \A d \in DOMAIN h_runs \ FailedDrivers :
               Cardinality(GeocodedPositions(d)) >= 2 =>
                   /\ h_runs[d].outcome = "optimized"
                   /\ h_status = 200
                   /\ d \in DOMAIN h_results.driver_routes

\* C16: in update_route_sequence a failed write does not keep the later stops
\* of the sequence from being written, and the returned count is the number
\* of writes that succeeded: successes plus failures is the length of the
\* sequence.
C16_FailedWriteDoesNotBlockLater ==
    \A driver \in UpdatedDrivers :
        LET k == Len(h_runs[driver].original_optimized_sequence)
            failed == h_runs[driver].failing \cap (0..(k - 1))
        IN  /\ h_runs[driver].deliveries_updated + Cardinality(failed) = k
            /\ \A p \in 1..k :
                  ((p - 1) \notin failed /\ \E f \in failed : f < p - 1) =>
                      TableItem(StopAt(driver, p).PK).RouteSequence = p

\* C16 witness: the first of three writes failed, the other two were made.
C16_Witness ==
    \E driver \in UpdatedDrivers :
        /\ Len(h_runs[driver].original_optimized_sequence) = 3
        /\ h_runs[driver].failing = {0}
        /\ h_runs[driver].deliveries_updated = 2
        /\ TableItem(StopAt(driver, 2).PK).RouteSequence = 2
        /\ TableItem(StopAt(driver, 3).PK).RouteSequence = 3
        /\ TableItem(StopAt(driver, 1).PK).RouteSequence # 1

\* C25: nearest neighbor ends after exactly k iterations on k stops: every
\* iteration takes exactly one stop off the unvisited list (so the
\* iterations done and the stops left always add up to k), and the loop
\* returns.
C25_NearestTerminatesAfterKIterations ==
    /\ [](nn_iterations + Len(nn_state.remaining_points) = Len(nn_coords))
    /\ [](nn_pc = "returned" => nn_iterations = Len(nn_coords))
    /\ <>(nn_pc = "returned")

\* A call with the largest number of stops has returned after as many
\* iterations.
C25_Witness ==
    /\ nn_pc = "returned"
    /\ Len(nn_coords) = MaxNearestStops
    /\ nn_iterations = MaxNearestStops
    /\ Len(nn_state.route) = MaxNearestStops

\* ------------------------------------------------------------------------
\* The chunking decision (RouteSpec)
\* ------------------------------------------------------------------------
\* C18: optimize_route_with_routes_api takes the chunked path exactly when
\* the number of stops including the depot (depot + n) exceeds
\* MAX_STOPS_PER_REQUEST, and otherwise optimizes the full stop set in one
\* pass.
C18_ChunkedExactlyAboveLimit ==
    rt_path # "undecided"
        => /\ rt_path # "direct" <=> Len(rt_coords) + 1 > MAX_STOPS_PER_REQUEST
           /\ (rt_path = "direct" /\ rt_pc = "returned")
                  => rt_result = NearestNeighborRoute(rt_start, rt_coords)

\* C23: on the chunked path without a duration matrix the seed order over
\* the whole stop set is the nearest-neighbor order from the depot, and that
\* order is then cut into chunks.
C23_NoMatrixSeedIsNearestNeighbor ==
    rt_path = "fallback" =>
        /\ rt_seed = NearestNeighborRoute(rt_start, rt_coords)
        /\ rt_chunks = MakeChunks(rt_seed, ChunkSize)

\* The p-th contiguous slice of at most limit-1 stops of the seed order.
SeedSlice(p) ==
    Slice(rt_seed, (p - 1) * (MAX_STOPS_PER_REQUEST - 1), p * (MAX_STOPS_PER_REQUEST - 1))

\* The slice in the order the chunk-local nearest neighbor from the depot
\* decides, as global stop indices.
ReorderedSlice(p) ==
    LET slice == SeedSlice(p)
        local == optimize_chunk_with_routes_api(
                     rt_start, [q \in 1..Len(slice) |-> rt_coords[slice[q] + 1]])
    IN  [q \in 1..Len(local) |-> slice[local[q] + 1]]

RECURSIVE ReorderedSlices(_)
ReorderedSlices(count) ==
    IF count = 0 THEN <<>> ELSE ReorderedSlices(count - 1) \o ReorderedSlice(count)

WrittenPositions(driver) ==
    {p \in 1..Len(h_runs[driver].original_optimized_sequence) :
         (p - 1) \notin h_runs[driver].failing}

\* C28: every data row of a driver's CSV belongs to a stop sequenced in this
\* run and carries that stop's number, the rows are in sequence order, and a
\* stop not sequenced in this run (no coordinates, failed write, ingestion
\* default 0) has no row.
C28_RowsAreTheSequencedStops ==
    \A driver \in OptimizedDrivers :
        LET csv == h_runs[driver].csv
        IN  /\ \A r \in 1..Len(csv) :
                   \E p \in WrittenPositions(driver) :
                       /\ csv[r].DeliveryID = StopAt(driver, p).PK
                       /\ csv[r].RouteSequence = p
            /\ \A r \in 1..(Len(csv) - 1) : csv[r].RouteSequence < csv[r + 1].RouteSequence

\* ------------------------------------------------------------------------
\* Properties of the route-planner engine (PlannerSpec)
\* ------------------------------------------------------------------------
\* The provider call failed, or answered with a non-success status.
PlannerCallFailed == pl_response \in {"exception", "status_not_200"}

\* C17: in the route-planner engine, when the provider call fails or returns
\* a non-success status, the driver is still sequenced by the
\* nearest-neighbor fallback and is not left without a route.
C17_PlannerFailureFallsBack ==
    (pl_pc \in {"record", "done", "crashed"} /\ PlannerCallFailed)
        => /\ pl_sequence = Sequence(PlannerFallback(pl_locations, pl_start))
           /\ pl_pc = "done" => pl_outcome = "optimized"

\* ------------------------------------------------------------------------
\* Properties of geocode_addresses_parallel (GeocodeSpec)
\* ------------------------------------------------------------------------
\* The addresses whose lookup produced a coordinate.
Located == {g_addresses[t] : t \in {u \in DOMAIN g_task :
                g_task[u] = "done" /\ g_results[u].coords # NoCoords}}

\* C19: geocode_addresses_parallel runs at most 5 lookups at the same time,
\* and in every interleaving the returned map holds exactly the addresses
\* whose lookup produced a coordinate, each with the coordinate of its own
\* lookup; a failed lookup omits only its own address.
C19_ParallelGeocodingIsolatesFailures ==
    /\ Cardinality(Running) <= 5
    /\ g_peak <= 5
    /\ g_pc = "returned"
           => /\ DOMAIN g_map = Located
              /\ \A t \in DOMAIN g_task :
                     /\ g_task[t] = "done"
                     /\ g_results[t].address = g_addresses[t]
                     /\ g_addresses[t] \in Located
                            => g_map[g_addresses[t]] = GeocoderCoords(g_addresses[t])

\* More addresses than threads, five lookups in flight at once, and a failed
\* lookup next to successful ones.
C19_Witness ==
    /\ g_pc = "returned"
    /\ Len(g_addresses) > max_workers
    /\ g_peak = max_workers
    /\ Located # {}
    /\ \E t \in DOMAIN g_task : t < Len(g_addresses) /\ g_results[t].coords = NoCoords
                                    /\ g_results[t + 1].coords # NoCoords

\* ------------------------------------------------------------------------
\* A later run of lambda_handler (HandlerSpec)
\* ------------------------------------------------------------------------
\* The stops the scan of the current run found with a sequence number of an
\* earlier run (the ingestion stores 0 or nothing).
SequencedEarlier ==
    {h_scanned[q].PK : q \in {r \in 1..Len(h_scanned) :
         h_scanned[r].RouteSequence # Absent /\ h_scanned[r].RouteSequence >= 1}}

\* The stops handed to the optimizer for a driver in the current run.
OptimizedStopSet(driver) ==
    IF h_runs[driver].outcome \in {"none", "skipped"} THEN {}
    ELSE {h_grouped[driver][h_runs[driver].original_indices[p] + 1].PK :
              p \in 1..Len(h_runs[driver].original_indices)}

\* C20: a run of lambda_handler works on the unsequenced stops only: a stop
\* that got a sequence number in an earlier run is in no stop set a later
\* run optimizes, and keeps its sequence number.
C20_SequencedStopsAreLeftAlone ==
    \A pk \in SequencedEarlier :
        /\ \A driver \in DOMAIN h_runs : pk \notin OptimizedStopSet(driver)
        /\ TableItem(pk).RouteSequence = ScannedItem(pk).RouteSequence

\* ------------------------------------------------------------------------
\* Properties of assign_driver (AssignSpec)
\* ------------------------------------------------------------------------
\* The entries of DRIVER_ASSIGNMENTS whose prefix the normalized postcode
\* starts with.
MatchingEntries(postcode) ==
    {k \in 1..Len(DRIVER_ASSIGNMENTS) :
         StartsWith(Normalize(postcode), DRIVER_ASSIGNMENTS[k].prefix)}

\* C29: assign_driver returns the driver of the longest prefix of
\* DRIVER_ASSIGNMENTS the normalized postcode starts with (a WC postcode goes
\* to Driver 2, an NW postcode to Driver 4), and "Unassigned" exactly when no
\* prefix matches.
C29_LongestPrefixWins ==
    ad_pc = "returned" =>
        /\ ad_driver = "Unassigned" <=> MatchingEntries(ad_postcode) = {}
        /\ \A k \in MatchingEntries(ad_postcode) :
               (\A m \in MatchingEntries(ad_postcode) :
                    Len(DRIVER_ASSIGNMENTS[m].prefix) <= Len(DRIVER_ASSIGNMENTS[k].prefix))
                   => ad_driver = DRIVER_ASSIGNMENTS[k].driver

====
